---- MODULE Spec2Model ----
(***************************************************************************)
(* Model of the rustls credential store of linkerd2-proxy's meshtls crate: *)
(*   creds.rs        watch() and the fixed TLS parameters (mod params)     *)
(*   creds/store.rs  Store, Key (signing adapter), CertResolver            *)
(* Certificates are abstract DER values; the external verifier (webpki via *)
(* rustls), the watch channel (tokio) and the Receiver are modelled by     *)
(* what they do at their interface.                                        *)
(***************************************************************************)
EXTENDS Integers, Sequences, FiniteSets, TLC

\* ------------------------------------------------------------------ bounds
MaxPem == 2          \* certificates in a trust-anchor bundle
MaxInter == 1        \* intermediates handed to set_certificate
MaxRotations == 2    \* successful rotations (snapshot objects allocated)
MaxReceivers == 2    \* Receiver handles alive at once
MaxOffered == 2      \* signature schemes offered in one hello
MaxChainInter == 2   \* intermediates of a call looked at on its own

\* ------------------------------------------------------------- option type
None == [some |-> FALSE]
Some(x) == [some |-> TRUE, val |-> x]

RECURSIVE Contains(_, _)
\* slice::contains : a linear scan of the slice
Contains(s, x) ==
  IF s = <<>> THEN FALSE
  ELSE IF Head(s) = x THEN TRUE ELSE Contains(Tail(s), x)

SeqsUpTo(S, n) == UNION {[1..k -> S] : k \in 0..n}

\* ------------------------------------------------------------------ params
SIGNATURE_ALG_RING_SIGNING == "ECDSA_P256_SHA256_ASN1_SIGNING"
SIGNATURE_ALG_RUSTLS_SCHEME == "ECDSA_NISTP256_SHA256"
SIGNATURE_ALG_RUSTLS_ALGORITHM == "ECDSA"
TLS_VERSIONS == <<"TLS13">>
TLS_SUPPORTED_CIPHERSUITES == <<"TLS13_CHACHA20_POLY1305_SHA256">>

\* The signature schemes a peer may offer.
Schemes == {"ECDSA_NISTP256_SHA256", "ECDSA_NISTP384_SHA384", "ED25519"}
Offers == SeqsUpTo(Schemes, MaxOffered)

\* ------------------------------------------------------- certificates (DER)
Names == {"foo.ns1", "bar.ns1"}

Cert(subject, names, issuer, ca, nb, na) ==
  [parsable |-> TRUE, subject |-> subject, names |-> names, issuer |-> issuer,
   ca |-> ca, nb |-> nb, na |-> na]
\* bytes that are no X.509 certificate
Junk ==
  [parsable |-> FALSE, subject |-> "", names |-> {}, issuer |-> "",
   ca |-> FALSE, nb |-> 0, na |-> 0]

RootA == Cert("rootA", {}, "rootA", TRUE, 0, 9)
RootB == Cert("rootB", {}, "rootB", TRUE, 0, 9)
IntA == Cert("intA", {}, "rootA", TRUE, 0, 9)
LeafFooA == Cert("foo", {"foo.ns1"}, "rootA", FALSE, 0, 9)
LeafFooInt == Cert("foo", {"foo.ns1"}, "intA", FALSE, 0, 9)
LeafBarA == Cert("bar", {"bar.ns1"}, "rootA", FALSE, 0, 9)
LeafBothB == Cert("both", {"foo.ns1", "bar.ns1"}, "rootB", FALSE, 0, 9)
LeafFooOld == Cert("foo", {"foo.ns1"}, "rootA", FALSE, 0, 0)
\* A second-level CA under intA, and a leaf it issued
IntA2 == Cert("intA2", {}, "intA", TRUE, 0, 9)
LeafFooDeep == Cert("foo", {"foo.ns1"}, "intA2", FALSE, 0, 9)

PemItems == {RootA, RootB, Junk}
Leaves == {LeafFooA, LeafFooInt, LeafBarA, LeafBothB, LeafFooOld, IntA, Junk}
InterPool == {IntA}
InterSeqs == SeqsUpTo(InterPool, MaxInter)
\* The inputs of a single call looked at on its own: longer lists of
\* intermediates, in either order
CallLeaves == Leaves \cup {LeafFooDeep}
CallInterSeqs == SeqsUpTo({IntA, IntA2}, MaxChainInter)
\* Clock readings: before and after the notAfter of LeafFooOld
Times == {0, 1}
Expiries == {0, 1}

\* -------------------------------------------------- startup inputs (watch)
MalformedPem == [malformed |-> TRUE, certs |-> <<>>]
Pem(certs) == [malformed |-> FALSE, certs |-> certs]
PemInputs == {MalformedPem} \cup {Pem(c) : c \in SeqsUpTo(PemItems, MaxPem)}
KeyInputs == {"p256-pkcs8", "rsa-pkcs8", "garbage"}
CsrInputs == {"csr-1", "csr-2"}
\* The trust-anchor bundles the Store is started with: one root, one root and an
\* unparsable entry, two roots
StartupPems == {Pem(<<RootA>>), Pem(<<RootB, Junk>>), Pem(<<RootA, RootB>>)}

\* ----------------------------------------------- external: rustls / webpki
RECURSIVE AddParsable(_, _)
\* RootCertStore::add_parsable_certificates : every DER that parses as a trust
\* anchor is appended, every other one is counted as skipped.
AddParsable(store, ders) ==
  IF ders = <<>> THEN store
  ELSE LET d == Head(ders)
           next == IF d.parsable
                   THEN [roots |-> Append(store.roots, d), added |-> store.added + 1,
                         skipped |-> store.skipped]
                   ELSE [roots |-> store.roots, added |-> store.added,
                         skipped |-> store.skipped + 1]
       IN AddParsable(next, Tail(ders))

EmptyRootStore == [roots |-> <<>>, added |-> 0, skipped |-> 0]

ValidAt(c, t) == c.nb <= t /\ t <= c.na

RECURSIVE PathOk(_, _, _, _, _)
\* webpki chain building: the certificate is in its validity period and is
\* issued by a trust anchor, or by a CA certificate of the intermediates that
\* itself chains to a trust anchor (unparsable intermediates are passed over).
PathOk(c, roots, pool, t, depth) ==
  /\ ValidAt(c, t)
  /\ \/ \E i \in 1..Len(roots) : roots[i].subject = c.issuer
     \/ /\ depth > 0
        /\ \E j \in 1..Len(pool) :
              /\ pool[j].parsable
              /\ pool[j].ca
              /\ pool[j].subject = c.issuer
              /\ PathOk(pool[j], roots, pool, t, depth - 1)

\* WebPkiVerifier::verify_server_cert(end_entity, intermediates, name, .., now)
VerifyServerCert(verifier, end_entity, intermediates, name, now) ==
  IF ~end_entity.parsable THEN "BadEncoding"
  ELSE IF end_entity.ca THEN "CaUsedAsEndEntity"
  ELSE IF ~PathOk(end_entity, verifier.roots, intermediates, now, Len(intermediates))
       THEN "UnknownIssuerOrExpired"
  ELSE IF name \notin end_entity.names THEN "NotValidForName"
  ELSE "Ok"

\* webpki EndEntityCert::try_from(der).and_then(verify_is_valid_for_subject_name)
ValidForSubjectName(der, name) == der.parsable /\ name \in der.names

\* tokio watch::Sender::send : with no receiver left the value is handed back
\* and the channel keeps its old value.
Send(chan, nrx, v) ==
  IF nrx = 0 THEN [chan |-> chan, res |-> "Err"] ELSE [chan |-> v, res |-> "Ok"]
\* tokio watch::Receiver::borrow : the value the channel holds now
Borrow(chan) == chan

\* Arc::new : a shared, immutable object; ptr tells two allocations apart
Arc(ptr, val) == [ptr |-> ptr, val |-> val]

\* ------------------------------------------------------------ creds/store.rs
\* struct Key(Arc<EcdsaKeyPair>)
Key(pair) == [pair |-> pair]
\* rustls::sign::CertifiedKey::new(chain, key)
CertifiedKey(chain, key) == [cert |-> chain, key |-> key]
\* struct CertResolver(Arc<CertifiedKey>)
CertResolver(ck) == [kind |-> "CertResolver", ck |-> ck]
\* rustls: the client resolver installed by with_no_client_auth()
FailResolveClientCert == [kind |-> "FailResolveClientCert"]
\* rustls::server::ResolvesServerCertUsingSni::new() : no name is registered
ResolvesServerCertUsingSniNew == [kind |-> "ResolvesServerCertUsingSni", by_name |-> <<>>]

\* client_config_builder(cert_verifier)
client_config_builder(cert_verifier) ==
  [cipher_suites |-> TLS_SUPPORTED_CIPHERSUITES,
   kx_groups |-> "safe_default",
   versions |-> TLS_VERSIONS,
   verifier |-> cert_verifier]

\* rustls ConfigBuilder::with_client_cert_resolver / with_no_client_auth : a new
\* ClientConfig starts with rustls's default (enabled) session resumption.
WithClientCertResolver(builder, resolver) ==
  [cipher_suites |-> builder.cipher_suites, kx_groups |-> builder.kx_groups,
   versions |-> builder.versions, verifier |-> builder.verifier,
   client_auth_cert_resolver |-> resolver, resumption |-> "default"]

\* server_config(roots, resolver) : rustls's defaults are kept for everything the
\* builder calls do not set. The session storage is one of them: the default
\* is the in-memory session cache, with which the server issues resumption
\* tickets; rustls's NoServerSessionStorage is what switches it off.
server_config(roots, resolver) ==
  [cipher_suites |-> TLS_SUPPORTED_CIPHERSUITES,
   kx_groups |-> "safe_default",
   versions |-> TLS_VERSIONS,
   verifier |-> [kind |-> "AllowAnyAnonymousOrAuthenticatedClient", roots |-> roots],
   cert_resolver |-> resolver,
   session_storage |-> "default"]

\* Store::new
StoreNew(roots, server_cert_verifier, key, csr, name) ==
  [roots |-> roots, server_cert_verifier |-> server_cert_verifier,
   key |-> key, csr |-> csr, name |-> name]

\* Store::client_config(&self, resolver)
client_config(self, resolver) ==
  [WithClientCertResolver(client_config_builder(self.server_cert_verifier), resolver)
     EXCEPT !.resumption = "disabled"]

\* validate with the verifier's answer dropped instead of returned
validate_Unchecked(self, certs, now) == "Ok"

\* Store::validate(&self, certs) at clock reading now
validate(self, certs, now) ==
  LET end_entity == certs[1]
      intermediates == Tail(certs)
  IN VerifyServerCert(self.server_cert_verifier, end_entity, intermediates,
                      self.name, now)

\* chain assembly that pushes the intermediates in reverse
AssembleChain_ReversedIntermediates(leaf, intermediates) ==
  <<leaf>> \o [i \in 1..Len(intermediates) |->
                intermediates[Len(intermediates) + 1 - i]]

\* set_certificate, lines 146-152: chain = leaf, then the intermediates
AssembleChain(leaf, intermediates) == <<leaf>> \o intermediates

\* choose_scheme that accepts whatever is offered first
choose_scheme_AnyOffered(self, offered) ==
  IF offered = <<>> THEN None ELSE Some(self)

\* Key::choose_scheme(&self, offered)
choose_scheme(self, offered) ==
  IF ~Contains(offered, SIGNATURE_ALG_RUSTLS_SCHEME) THEN None ELSE Some(self)
\* Key::algorithm(&self)
algorithm(self) == SIGNATURE_ALG_RUSTLS_ALGORITHM
\* <Key as Signer>::scheme(&self)
scheme(self) == SIGNATURE_ALG_RUSTLS_SCHEME

\* resolve_ that looks only at the peer's first (preferred) scheme
resolve_FirstOnly(self, sigschemes) ==
  IF sigschemes = <<>> \/ Head(sigschemes) # SIGNATURE_ALG_RUSTLS_SCHEME
  THEN None ELSE Some(self.ck)

\* CertResolver::resolve_(&self, sigschemes)
resolve_(self, sigschemes) ==
  IF ~Contains(sigschemes, SIGNATURE_ALG_RUSTLS_SCHEME) THEN None ELSE Some(self.ck)

\* <CertResolver as ResolvesClientCert>::resolve(&self, _acceptable_issuers, sigschemes)
ClientResolve(self, acceptable_issuers, sigschemes) == resolve_(self, sigschemes)

\* server resolution that falls back to the loaded identity without SNI
ServerResolve_NoSniDefault(self, hello) ==
  IF ~hello.server_name.some THEN resolve_(self, hello.signature_schemes)
  ELSE IF self.ck.cert = <<>> THEN None
  ELSE IF ~ValidForSubjectName(self.ck.cert[1], hello.server_name.val) THEN None
  ELSE resolve_(self, hello.signature_schemes)

\* server resolution without the check of the leaf against the requested name
ServerResolve_NoSubjectCheck(self, hello) ==
  IF ~hello.server_name.some THEN None
  ELSE IF self.ck.cert = <<>> THEN None
  ELSE resolve_(self, hello.signature_schemes)

\* server resolution that hands the identity out whatever schemes the hello offers
ServerResolve_IgnoresSchemes(self, hello) ==
  IF ~hello.server_name.some THEN None
  ELSE IF self.ck.cert = <<>> THEN None
  ELSE IF ~ValidForSubjectName(self.ck.cert[1], hello.server_name.val) THEN None
  ELSE Some(self.ck)

\* <CertResolver as ResolvesServerCert>::resolve(&self, hello)
ServerResolve(self, hello) ==
  IF ~hello.server_name.some THEN None
  ELSE IF self.ck.cert = <<>> THEN None
  ELSE IF ~ValidForSubjectName(self.ck.cert[1], hello.server_name.val) THEN None
  ELSE resolve_(self, hello.signature_schemes)

\* The debug! line the server-side resolve emits on its way out (lines 250, 260
\* and, inside resolve_, 216): the first check that refuses writes it.
ServerResolveLog(self, hello) ==
  IF ~hello.server_name.some THEN "no SNI -> no certificate"
  ELSE IF self.ck.cert = <<>> THEN "none"
  ELSE IF ~ValidForSubjectName(self.ck.cert[1], hello.server_name.val)
       THEN "Local certificate is not valid for SNI"
  ELSE IF ~Contains(hello.signature_schemes, SIGNATURE_ALG_RUSTLS_SCHEME)
       THEN "Signature scheme not supported -> no certificate"
  ELSE "none"

\* The protocol engine's call through the config's dyn ResolvesClientCert
ResolveClientCert(resolver, acceptable_issuers, sigschemes) ==
  IF resolver.kind = "CertResolver"
  THEN ClientResolve(resolver, acceptable_issuers, sigschemes)
  ELSE None
\* The protocol engine's call through the config's dyn ResolvesServerCert; the
\* SNI resolver looks the requested name up among its registered names.
ResolveServerCert(resolver, hello) ==
  IF resolver.kind = "CertResolver" THEN ServerResolve(resolver, hello)
  ELSE IF hello.server_name.some /\ hello.server_name.val \in DOMAIN resolver.by_name
       THEN Some(resolver.by_name[hello.server_name.val]) ELSE None

\* ------------------------------------------------------------------ creds.rs
\* a key parser that takes any well-formed PKCS#8 document, whatever its algorithm
FromPkcs8_AnyPkcs8(alg, key_pkcs8) ==
  IF key_pkcs8 \in {"p256-pkcs8", "rsa-pkcs8"}
  THEN Some([alg |-> alg, pkcs8 |-> key_pkcs8]) ELSE None

\* EcdsaKeyPair::from_pkcs8(SIGNATURE_ALG_RING_SIGNING, key_pkcs8)
FromPkcs8(alg, key_pkcs8) ==
  IF key_pkcs8 = "p256-pkcs8" THEN Some([alg |-> alg, pkcs8 |-> key_pkcs8]) ELSE None

\* a first client snapshot that already carries a resolver, over an empty identity
InitialClientConfig_EmptyIdentity(server_cert_verifier) ==
  [WithClientCertResolver(client_config_builder(server_cert_verifier),
                          CertResolver(CertifiedKey(<<>>, Key([alg |-> "none", pkcs8 |-> "none"]))))
     EXCEPT !.resumption = "disabled"]

\* watch(): the first client snapshot, lines 61-74
InitialClientConfig(server_cert_verifier) ==
  [WithClientCertResolver(client_config_builder(server_cert_verifier),
                          FailResolveClientCert)
     EXCEPT !.resumption = "disabled"]
\* watch(): the first server snapshot, lines 75-81
InitialServerConfig(roots) == server_config(roots, ResolvesServerCertUsingSniNew)

WatchErr(e) == [ok |-> FALSE, err |-> e]

\* watch() that refuses a bundle as soon as one of its certificates is skipped
watch_SkippedIsFatal(identity, roots_pem, key_pkcs8, csr) ==
  IF roots_pem.malformed THEN WatchErr("invalid trust anchors file")
  ELSE IF roots_pem.certs = <<>> THEN WatchErr("no trust roots in PEM file")
  ELSE
    LET roots == AddParsable(EmptyRootStore, roots_pem.certs)
        key == FromPkcs8(SIGNATURE_ALG_RING_SIGNING, key_pkcs8)
        server_cert_verifier == [kind |-> "WebPkiVerifier", roots |-> roots.roots]
    IN IF roots.added = 0 \/ roots.skipped # 0 THEN WatchErr("no trust roots loaded")
       ELSE IF ~key.some THEN WatchErr("InvalidKey")
       ELSE [ok |-> TRUE, added |-> roots.added, skipped |-> roots.skipped,
             client |-> Arc(0, InitialClientConfig(server_cert_verifier)),
             server |-> Arc(0, InitialServerConfig(roots.roots)),
             store |-> StoreNew(roots.roots, server_cert_verifier, key.val, csr,
                                identity)]

\* watch(identity, roots_pem, key_pkcs8, csr)
watch(identity, roots_pem, key_pkcs8, csr) ==
  IF roots_pem.malformed THEN WatchErr("invalid trust anchors file")
  ELSE IF roots_pem.certs = <<>> THEN WatchErr("no trust roots in PEM file")
  ELSE
    LET roots == AddParsable(EmptyRootStore, roots_pem.certs)
        key == FromPkcs8(SIGNATURE_ALG_RING_SIGNING, key_pkcs8)
        server_cert_verifier == [kind |-> "WebPkiVerifier", roots |-> roots.roots]
    IN IF roots.added = 0 THEN WatchErr("no trust roots loaded")
       ELSE IF ~key.some THEN WatchErr("InvalidKey")
       ELSE [ok |-> TRUE,
             added |-> roots.added,
             skipped |-> roots.skipped,
             client |-> Arc(0, InitialClientConfig(server_cert_verifier)),
             server |-> Arc(0, InitialServerConfig(roots.roots)),
             store |-> StoreNew(roots.roots, server_cert_verifier, key.val, csr,
                                identity)]

\* ------------------------------------------------------------------- state
VARIABLES
  boot,       \* the arguments watch() was given and how it returned
  store,      \* the Store's fields (roots, verifier, key, csr, name)
  clientCh,   \* value held by the client watch channel
  serverCh,   \* value held by the server watch channel
  receivers,  \* the number of Receiver handles alive
  pc,         \* where the running set_certificate call stands
  pending,    \* the configs a running set_certificate call has built
  ret,        \* what the last finished set_certificate call returned
  nbuilt,     \* snapshot pairs built so far
  obs,        \* the last value read: a snapshot through a Receiver, or the CSR
  hs          \* the last handshake-time query and its answer

vars == <<boot, store, clientCh, serverCh, receivers, pc, pending, ret, nbuilt, obs, hs>>

NoPending == [built |-> FALSE]
\* The certificates the running set_certificate call was given, lines 142-143
CallFrame(leaf, intermediates) == [leaf |-> leaf, intermediates |-> intermediates]
\* The arguments of watch(), lines 23-26
WatchArgs(identity, roots_pem, key_pkcs8, csr) ==
  [identity |-> identity, roots_pem |-> roots_pem, key_pkcs8 |-> key_pkcs8, csr |-> csr]
\* How watch() returned: Ok with the counts of line 41, or the error
Returned(args, w) ==
  IF w.ok
  THEN [args |-> args, outcome |-> "Ok", added |-> w.added, skipped |-> w.skipped]
  ELSE [args |-> args, outcome |-> w.err]
NoObs == [side |-> "none"]
NoHs == [op |-> "none"]

Init ==
  \E identity \in Names, roots_pem \in StartupPems, key_pkcs8 \in KeyInputs,
     csr \in CsrInputs :
    LET w == watch(identity, roots_pem, key_pkcs8, csr)
    IN /\ w.ok
       /\ boot = Returned(WatchArgs(identity, roots_pem, key_pkcs8, csr), w)
       /\ store = w.store
       /\ clientCh = w.client
       /\ serverCh = w.server
       /\ receivers = 1
       /\ pc = "idle"
       /\ pending = NoPending
       /\ ret = "none"
       /\ nbuilt = 0
       /\ obs = NoObs
       /\ hs = NoHs

\* ------------------------------------------------------- Store operations
\* set_certificate that builds one CertifiedKey per config, the server's over
\* the leaf alone
BuildConfigs_SplitIdentity(self, chain, ptr) ==
  [built |-> TRUE,
   client |-> Arc(ptr, client_config(self,
                CertResolver(CertifiedKey(chain, Key(self.key))))),
   server |-> Arc(ptr, server_config(self.roots,
                CertResolver(CertifiedKey(<<Head(chain)>>, Key(self.key)))))]

\* set_certificate that rewrites the configs behind the Arcs already published
\* in place of allocating new ones
BuildConfigs_InPlace(self, chain, ptr) ==
  LET resolver == CertResolver(CertifiedKey(chain, Key(self.key)))
  IN [built |-> TRUE,
      client |-> Arc(ptr - 1, client_config(self, resolver)),
      server |-> Arc(ptr - 1, server_config(self.roots, resolver))]

\* set_certificate, lines 157-164: the resolver over the new CertifiedKey and
\* the two configs built around it, each a new Arc
BuildConfigs(self, chain, ptr) ==
  LET resolver == CertResolver(CertifiedKey(chain, Key(self.key)))
  IN [built |-> TRUE,
      client |-> Arc(ptr, client_config(self, resolver)),
      server |-> Arc(ptr, server_config(self.roots, resolver))]

\* set_certificate that publishes the configs it built before it looks at the
\* verifier's answer
SetCertificate_PublishThenValidate(leaf, intermediates, expiry, now) ==
  /\ pc = "idle"
  /\ nbuilt < MaxRotations
  /\ LET chain == AssembleChain(leaf, intermediates)
         built == BuildConfigs(store, chain, nbuilt + 1)
     IN /\ clientCh' = Send(clientCh, receivers, built.client).chan
        /\ serverCh' = Send(serverCh, receivers, built.server).chan
        /\ ret' = IF validate(store, chain, now) # "Ok" THEN "Err" ELSE "Ok"
  /\ nbuilt' = nbuilt + 1
  /\ UNCHANGED <<boot, store, receivers, pc, pending, obs, hs>>

\* set_certificate that refuses a certificate whose stated expiry has passed
SetCertificate_ChecksExpiry(leaf, intermediates, expiry, now) ==
  /\ pc = "idle"
  /\ LET chain == AssembleChain(leaf, intermediates)
     IN IF validate(store, chain, now) # "Ok" \/ expiry < now
        THEN /\ ret' = "Err"
             /\ UNCHANGED <<pc, pending, nbuilt>>
        ELSE /\ nbuilt < MaxRotations
             /\ nbuilt' = nbuilt + 1
             /\ pending' = BuildConfigs(store, chain, nbuilt + 1)
                            @@ CallFrame(leaf, intermediates)
             /\ pc' = "send_client"
             /\ UNCHANGED ret
  /\ UNCHANGED <<boot, store, clientCh, serverCh, receivers, obs, hs>>

\* set_certificate, lines 146-164: assemble, validate, build both configs.
\* A validation error returns at once (the ? on line 155).
SetCertificate(leaf, intermediates, expiry, now) ==
  /\ pc = "idle"
  /\ LET chain == AssembleChain(leaf, intermediates)
     IN IF validate(store, chain, now) # "Ok"
        THEN /\ ret' = "Err"
             /\ UNCHANGED <<pc, pending, nbuilt>>
        ELSE /\ nbuilt < MaxRotations
             /\ nbuilt' = nbuilt + 1
             /\ pending' = BuildConfigs(store, chain, nbuilt + 1)
                            @@ CallFrame(leaf, intermediates)
             /\ pc' = "send_client"
             /\ UNCHANGED ret
  /\ UNCHANGED <<boot, store, clientCh, serverCh, receivers, obs, hs>>

\* set_certificate, line 167: let _ = self.client_tx.send(client)
SendClient ==
  /\ pc = "send_client"
  /\ clientCh' = Send(clientCh, receivers, pending.client).chan
  /\ pc' = "send_server"
  /\ UNCHANGED <<boot, store, serverCh, receivers, pending, ret, nbuilt, obs, hs>>

\* set_certificate that returns without publishing the server config
SendServer_NotSent ==
  /\ pc = "send_server"
  /\ pc' = "idle"
  /\ pending' = NoPending
  /\ ret' = "Ok"
  /\ UNCHANGED <<boot, store, clientCh, serverCh, receivers, nbuilt, obs, hs>>

\* set_certificate that returns the channel's send error (a ? in place of let _)
SendServer_PropagatesError ==
  /\ pc = "send_server"
  /\ LET sent == Send(serverCh, receivers, pending.server)
     IN /\ serverCh' = sent.chan
        /\ ret' = sent.res
  /\ pc' = "idle"
  /\ pending' = NoPending
  /\ UNCHANGED <<boot, store, clientCh, receivers, nbuilt, obs, hs>>

\* set_certificate, lines 168-170: let _ = self.server_tx.send(server); Ok(())
SendServer ==
  /\ pc = "send_server"
  /\ serverCh' = Send(serverCh, receivers, pending.server).chan
  /\ pc' = "idle"
  /\ pending' = NoPending
  /\ ret' = "Ok"
  /\ UNCHANGED <<boot, store, clientCh, receivers, nbuilt, obs, hs>>

\* a CSR request that makes a new CSR on every call and keeps it in the Store
GenCertificateSigningRequest_FreshCsr ==
  /\ pc = "idle"
  /\ obs' = [side |-> "csr", der |-> "csr-fresh"]
  /\ store' = [store EXCEPT !.csr = "csr-fresh"]
  /\ UNCHANGED <<boot, clientCh, serverCh, receivers, pc, pending, ret, nbuilt, hs>>

\* gen_certificate_signing_request(&mut self)
GenCertificateSigningRequest ==
  /\ pc = "idle"
  /\ obs' = [side |-> "csr", der |-> store.csr]
  /\ UNCHANGED <<boot, store, clientCh, serverCh, receivers, pc, pending, ret, nbuilt, hs>>

\* ----------------------------------------------------- Receiver operations
\* Receiver handles share the two channels and hold no state of their own: the
\* model counts them.
\* Receiver: the accessor of the current client snapshot, through any live handle
ReadClient ==
  /\ receivers > 0
  /\ obs' = [side |-> "client", snap |-> Borrow(clientCh)]
  /\ UNCHANGED <<boot, store, clientCh, serverCh, receivers, pc, pending, ret, nbuilt, hs>>

\* Receiver: the accessor of the current server snapshot, through any live handle
ReadServer ==
  /\ receivers > 0
  /\ obs' = [side |-> "server", snap |-> Borrow(serverCh)]
  /\ UNCHANGED <<boot, store, clientCh, serverCh, receivers, pc, pending, ret, nbuilt, hs>>

\* Receiver::clone : a new handle on the same two channels
CloneReceiver ==
  /\ receivers > 0
  /\ receivers < MaxReceivers
  /\ receivers' = receivers + 1
  /\ UNCHANGED <<boot, store, clientCh, serverCh, pc, pending, ret, nbuilt, obs, hs>>

\* drop(Receiver)
DropReceiver ==
  /\ receivers > 0
  /\ receivers' = receivers - 1
  /\ UNCHANGED <<boot, store, clientCh, serverCh, pc, pending, ret, nbuilt, obs, hs>>

\* -------------------------------------------- handshake-time queries (rustls)
ServerNames == {None} \cup {Some(n) : n \in Names}
Hellos == [server_name : ServerNames, signature_schemes : Offers]
\* The acceptable-issuer names a server sends with its certificate request
IssuerLists == {<<>>, <<"rootA">>, <<"rootB", "rootA">>}

\* A new inbound connection: rustls asks the current server snapshot's resolver
ServerHandshake(hello) ==
  /\ LET resolver == Borrow(serverCh).val.cert_resolver
     IN hs' = [op |-> "server", resolver |-> resolver, hello |-> hello,
               res |-> ResolveServerCert(resolver, hello),
               log |-> IF resolver.kind = "CertResolver"
                       THEN ServerResolveLog(resolver, hello) ELSE "none"]
  /\ UNCHANGED <<boot, store, clientCh, serverCh, receivers, pc, pending, ret, nbuilt, obs>>

\* A new outbound connection: rustls asks the current client snapshot's resolver
ClientHandshake(acceptable_issuers, sigschemes) ==
  /\ LET resolver == Borrow(clientCh).val.client_auth_cert_resolver
     IN hs' = [op |-> "client", resolver |-> resolver,
               issuers |-> acceptable_issuers, offered |-> sigschemes,
               res |-> ResolveClientCert(resolver, acceptable_issuers, sigschemes)]
  /\ UNCHANGED <<boot, store, clientCh, serverCh, receivers, pc, pending, ret, nbuilt, obs>>

\* rustls picks the signer of the presented CertifiedKey: key.choose_scheme(offered),
\* then asks the signer for its scheme and the key for its algorithm.
ChooseScheme(offered) ==
  /\ Borrow(clientCh).val.client_auth_cert_resolver.kind = "CertResolver"
  /\ LET key == Borrow(clientCh).val.client_auth_cert_resolver.ck.key
         signer == choose_scheme(key, offered)
     IN hs' = [op |-> "sign", key |-> key, offered |-> offered,
               res |-> IF signer.some
                       THEN Some([signer |-> signer.val,
                                  scheme |-> scheme(signer.val),
                                  algorithm |-> algorithm(key)])
                       ELSE None]
  /\ UNCHANGED <<boot, store, clientCh, serverCh, receivers, pc, pending, ret, nbuilt, obs>>

Next ==
  \/ \E leaf \in Leaves, intermediates \in InterSeqs, expiry \in Expiries, now \in Times :
       SetCertificate(leaf, intermediates, expiry, now)
  \/ SendClient
  \/ SendServer
  \/ GenCertificateSigningRequest
  \/ ReadClient
  \/ ReadServer
  \/ CloneReceiver
  \/ DropReceiver

Spec == Init /\ [][Next]_vars

\* The handshake-time queries are pure: they are applied to the resolvers of
\* every pair of snapshots the Store can have published, the first pair or the
\* pair of a completed rotation, for every startup input and every chain that
\* validates.
InitResolve ==
  \E identity \in Names, roots_pem \in PemInputs, key_pkcs8 \in KeyInputs,
     csr \in CsrInputs :
    LET w == watch(identity, roots_pem, key_pkcs8, csr)
    IN /\ w.ok
       /\ boot = Returned(WatchArgs(identity, roots_pem, key_pkcs8, csr), w)
       /\ store = w.store
       /\ \/ /\ nbuilt = 0
             /\ ret = "none"
             /\ clientCh = w.client
             /\ serverCh = w.server
          \/ \E leaf \in Leaves, intermediates \in InterSeqs, now \in Times :
               LET chain == AssembleChain(leaf, intermediates)
                   built == BuildConfigs(w.store, chain, 1)
               IN /\ validate(w.store, chain, now) = "Ok"
                  /\ nbuilt = 1
                  /\ ret = "Ok"
                  /\ clientCh = Send(w.client, 1, built.client).chan
                  /\ serverCh = Send(w.server, 1, built.server).chan
       /\ receivers = 1
       /\ pc = "idle"
       /\ pending = NoPending
       /\ obs = NoObs
       /\ hs = NoHs

\* One query per behaviour: a query changes nothing a later query reads.
NextResolve ==
  \/ \E hello \in Hellos : hs = NoHs /\ ServerHandshake(hello)
  \/ \E issuers \in IssuerLists, sigschemes \in Offers :
       hs = NoHs /\ ClientHandshake(issuers, sigschemes)
  \/ \E offered \in Offers : hs = NoHs /\ ChooseScheme(offered)

SpecResolve == InitResolve /\ [][NextResolve]_vars

\* ------------------------------------------------------------- watch() itself
\* Before watch() has returned there is no Store, no channel and no Receiver.
NoStore == [kind |-> "none"]
NoChannel == [kind |-> "none"]

InitWatch ==
  \E identity \in Names, roots_pem \in PemInputs, key_pkcs8 \in KeyInputs,
     csr \in CsrInputs :
    /\ boot = [args |-> WatchArgs(identity, roots_pem, key_pkcs8, csr),
               outcome |-> "not called"]
    /\ store = NoStore
    /\ clientCh = NoChannel
    /\ serverCh = NoChannel
    /\ receivers = 0
    /\ pc = "idle"
    /\ pending = NoPending
    /\ ret = "none"
    /\ nbuilt = 0
    /\ obs = NoObs
    /\ hs = NoHs

\* The call of watch(): on Ok the caller holds the Store and one Receiver on the
\* two channels (lines 83-94); on Err it holds nothing.
Watch ==
  /\ boot.outcome = "not called"
  /\ LET a == boot.args
         w == watch(a.identity, a.roots_pem, a.key_pkcs8, a.csr)
     IN /\ boot' = Returned(a, w)
        /\ IF w.ok
           THEN /\ store' = w.store
                /\ clientCh' = w.client
                /\ serverCh' = w.server
                /\ receivers' = 1
           ELSE UNCHANGED <<store, clientCh, serverCh, receivers>>
  /\ UNCHANGED <<pc, pending, ret, nbuilt, obs, hs>>

NextWatch == Watch

SpecWatch == InitWatch /\ [][NextWatch]_vars

\* ------------------------------------------------- one set_certificate call
\* The first successful call after startup, with any failed calls before it,
\* over the wider inputs CallLeaves and CallInterSeqs.
NextCall ==
  \/ \E leaf \in CallLeaves, intermediates \in CallInterSeqs, expiry \in Expiries,
        now \in Times :
       nbuilt = 0 /\ SetCertificate(leaf, intermediates, expiry, now)
  \/ SendClient
  \/ SendServer

SpecCall == Init /\ [][NextCall]_vars

\* ================================================================== claims
FixedScheme == "ECDSA_NISTP256_SHA256"
Offered(sigschemes) == {sigschemes[i] : i \in 1..Len(sigschemes)}

\* The chain verifies for the Store's identity name against its trust roots at
\* some reading of the clock.
PassesValidation(chain) ==
  /\ chain # <<>>
  /\ \E now \in Times :
       VerifyServerCert([kind |-> "WebPkiVerifier", roots |-> store.roots],
                        chain[1], Tail(chain), store.name, now) = "Ok"

\* A resolver carries no chain (the first snapshots), or a validated one.
AbsentOrValidated(resolver) ==
  \/ resolver.kind \in {"FailResolveClientCert", "ResolvesServerCertUsingSni"}
  \/ resolver.kind = "CertResolver" /\ PassesValidation(resolver.ck.cert)

\* A step of set_certificate out of the Store's idle state: neither a Receiver
\* nor the CSR request took it (these change obs or receivers).
SetCertificateCalled ==
  pc = "idle" /\ obs' = obs /\ receivers' = receivers /\ vars' # vars

\* C1: a set_certificate call either carries a chain that passes validation, or it
\* returns an error and leaves both channels' values, so what every later read
\* returns, as they were; no call publishes anything before it has validated.
C1_FailedRotationKeepsSnapshots ==
  [][SetCertificateCalled =>
       /\ Borrow(clientCh') = Borrow(clientCh)
       /\ Borrow(serverCh') = Borrow(serverCh)
       /\ \/ ret' = "Err" /\ pc' = "idle" /\ pending' = pending
          \/ /\ pc' = "send_client"
             /\ ret' = ret
             /\ PassesValidation(pending'.server.val.cert_resolver.ck.cert)]_vars

\* C1 witness: a call failed after a rotation, and the rotated pair is still published.
C1_Witness ==
  /\ ret = "Err"
  /\ pc = "idle"
  /\ nbuilt >= 1
  /\ clientCh.ptr = nbuilt
  /\ serverCh.ptr = nbuilt
  /\ clientCh.val.client_auth_cert_resolver.kind = "CertResolver"

\* C2: in every reachable state the chain carried by the published client and
\* server snapshots, and by any snapshot read earlier, is absent or passed
\* validation against the trust roots for the Store's identity name.
C2_OnlyValidatedChainsPublished ==
  /\ AbsentOrValidated(Borrow(clientCh).val.client_auth_cert_resolver)
  /\ AbsentOrValidated(Borrow(serverCh).val.cert_resolver)
  /\ obs.side = "client" => AbsentOrValidated(obs.snap.val.client_auth_cert_resolver)
  /\ obs.side = "server" => AbsentOrValidated(obs.snap.val.cert_resolver)

\* C2 witness: a chain with an intermediate is published on both channels.
C2_Witness ==
  /\ clientCh.val.client_auth_cert_resolver.kind = "CertResolver"
  /\ serverCh.val.cert_resolver.kind = "CertResolver"
  /\ Len(serverCh.val.cert_resolver.ck.cert) = 2
  /\ serverCh.val.cert_resolver.ck.cert[1].issuer = "intA"

\* C3: at no instant does a live Receiver see a client snapshot and a server
\* snapshot of which only one belongs to the newest rotation.
C3_PairPublishedAtomically ==
  receivers > 0 => Borrow(clientCh).ptr = Borrow(serverCh).ptr

\* C4: once set_certificate has returned success, a read of the client or the
\* server snapshot through any live Receiver returns the snapshot that call built.
C4_ReadAfterRotationIsNew ==
  [][(pc = "idle" /\ ret = "Ok")
     => /\ ReadClient => (obs'.snap.ptr = nbuilt /\ nbuilt >= 1)
        /\ ReadServer => (obs'.snap.ptr = nbuilt /\ nbuilt >= 1)]_vars

\* C4 witness: with two handles alive, the server snapshot of the second rotation
\* has been read.
C4_Witness ==
  /\ pc = "idle"
  /\ ret = "Ok"
  /\ nbuilt = 2
  /\ receivers = 2
  /\ obs.side = "server"
  /\ obs.snap.ptr = 2

\* C5: after initialization and before any rotation the server snapshot's resolver
\* answers no client hello and the client snapshot presents no certificate.
C5_InitialSnapshotsPresentNothing ==
  (nbuilt = 0 /\ pc = "idle")
  => /\ \A hello \in Hellos :
          ResolveServerCert(Borrow(serverCh).val.cert_resolver, hello) = None
     /\ \A issuers \in IssuerLists, sigschemes \in Offers :
          ResolveClientCert(Borrow(clientCh).val.client_auth_cert_resolver,
                            issuers, sigschemes) = None
     /\ hs.op \in {"server", "client"} => hs.res = None
     /\ hs.op # "sign"

\* C5 witness: before any rotation a hello naming the identity and offering the
\* fixed scheme was answered with no certificate.
C5_Witness ==
  /\ nbuilt = 0
  /\ ret = "none"
  /\ hs.op = "server"
  /\ hs.hello.server_name = Some(store.name)
  /\ FixedScheme \in Offered(hs.hello.signature_schemes)
  /\ hs.res = None

\* C6: once its chain has passed validation a set_certificate call goes through
\* both publish steps and returns Ok, whatever the two sends return.
C6_PublishFailureIsNotAnError ==
  [][/\ (pc = "send_client" /\ pc' # pc) => (pc' = "send_server" /\ ret' = ret)
     /\ (pc = "send_server" /\ pc' # pc) => (pc' = "idle" /\ ret' = "Ok")
     /\ (pc # "idle" /\ pc' = pc) => ret' = ret]_vars

\* C6 witness: a rotation returned Ok with no Receiver alive, its sends refused.
C6_Witness ==
  /\ pc = "idle"
  /\ ret = "Ok"
  /\ receivers = 0
  /\ nbuilt >= 1
  /\ clientCh.ptr < nbuilt
  /\ serverCh.ptr < nbuilt

\* C7: a server hello without a server name gets no certificate, whatever
\* resolver is published and whatever schemes the hello offers.
C7_NoSniNoCertificate ==
  /\ \A sigschemes \in Offers :
       ResolveServerCert(Borrow(serverCh).val.cert_resolver,
                         [server_name |-> None, signature_schemes |-> sigschemes]) = None
  /\ (hs.op = "server" /\ ~hs.hello.server_name.some) => hs.res = None

\* C7 witness: a rotated identity is loaded, the hello offers the fixed scheme
\* and names no server.
C7_Witness ==
  /\ hs.op = "server"
  /\ hs.resolver.kind = "CertResolver"
  /\ ~hs.hello.server_name.some
  /\ FixedScheme \in Offered(hs.hello.signature_schemes)
  /\ hs.res = None

\* C8: a server hello naming a server the leaf's subject does not cover gets no
\* certificate, also with a certificate loaded and the fixed scheme offered.
C8_SniMismatchNoCertificate ==
  (/\ hs.op = "server"
   /\ hs.resolver.kind = "CertResolver"
   /\ hs.hello.server_name.some
   /\ hs.hello.server_name.val \notin hs.resolver.ck.cert[1].names)
  => hs.res = None

\* C8 witness: the mismatch case with the fixed scheme offered.
C8_Witness ==
  /\ hs.op = "server"
  /\ hs.resolver.kind = "CertResolver"
  /\ hs.hello.server_name.some
  /\ hs.hello.server_name.val \notin hs.resolver.ck.cert[1].names
  /\ FixedScheme \in Offered(hs.hello.signature_schemes)
  /\ hs.res = None

\* C9: client-side resolution by a CertResolver returns its Certified Identity
\* exactly when the fixed scheme is a member of the offered schemes, whatever
\* their order and number and whatever the acceptable issuers.
C9_ClientResolveIffFixedScheme ==
  (hs.op = "client" /\ hs.resolver.kind = "CertResolver")
  => hs.res = IF FixedScheme \in Offered(hs.offered)
              THEN Some(hs.resolver.ck) ELSE None

\* C9 witness: the identity is returned with the fixed scheme offered last and
\* a non-empty issuer list.
C9_Witness ==
  /\ hs.op = "client"
  /\ hs.resolver.kind = "CertResolver"
  /\ Len(hs.offered) = 2
  /\ hs.offered[1] # FixedScheme
  /\ hs.offered[2] = FixedScheme
  /\ hs.issuers # <<>>
  /\ hs.res = Some(hs.resolver.ck)

\* C10: choose_scheme returns a signer exactly when the offered schemes contain
\* the fixed scheme, and the signer is the key itself, reporting the fixed
\* scheme and the ECDSA algorithm.
C10_SignerOnlyFixedScheme ==
  hs.op = "sign"
  => /\ hs.res.some <=> FixedScheme \in Offered(hs.offered)
     /\ hs.res.some => /\ hs.res.val.signer = hs.key
                        /\ hs.res.val.scheme = FixedScheme
                        /\ hs.res.val.algorithm = "ECDSA"

\* C10 witness: a signer was returned although another scheme was offered first.
C10_Witness ==
  /\ hs.op = "sign"
  /\ hs.res.some
  /\ Len(hs.offered) = 2
  /\ hs.offered[1] # FixedScheme

\* ---------------------------------------------------------------- C11 .. C14
\* The settings the claim names, read off a published snapshot. Session
\* resumption is off on a client config whose resumption field is disabled and
\* on a server config that stores no sessions.
PinsOneSuiteOneVersion(cfg) == Len(cfg.cipher_suites) = 1 /\ Len(cfg.versions) = 1
ClientResumptionDisabled(cfg) == cfg.resumption = "disabled"
ServerResumptionDisabled(cfg) == cfg.session_storage = "NoServerSessionStorage"

\* C11: every published snapshot, client and server, the first ones and every
\* rotated one, whether still in the channel or held by a reader, pins exactly
\* one cipher suite and one protocol version and has session resumption
\* disabled.
C11_EverySnapshotPinnedAndNoResumption ==
  /\ PinsOneSuiteOneVersion(Borrow(clientCh).val)
  /\ ClientResumptionDisabled(Borrow(clientCh).val)
  /\ PinsOneSuiteOneVersion(Borrow(serverCh).val)
  /\ ServerResumptionDisabled(Borrow(serverCh).val)
  /\ obs.side = "client" => /\ PinsOneSuiteOneVersion(obs.snap.val)
                            /\ ClientResumptionDisabled(obs.snap.val)
  /\ obs.side = "server" => /\ PinsOneSuiteOneVersion(obs.snap.val)
                            /\ ServerResumptionDisabled(obs.snap.val)

\* The certificates of a bundle that the root store takes
CountAddable(certs) == Cardinality({i \in 1..Len(certs) : certs[i].parsable})
WatchReturned == boot.outcome # "not called"

\* C12: of a bundle of N certificates of which M can be added, M are added and
\* N - M are skipped; with a valid key watch() fails exactly when M = 0, and
\* with M >= 1 it never fails over the trust roots, whatever was skipped.
C12_SkippedRootsAreNotFatal ==
  WatchReturned
  => LET certs == boot.args.roots_pem.certs
         N == Len(certs)
         M == CountAddable(certs)
     IN /\ boot.args.key_pkcs8 = "p256-pkcs8" => (boot.outcome = "Ok" <=> M >= 1)
        /\ M >= 1 => boot.outcome \in {"Ok", "InvalidKey"}
        /\ boot.outcome = "Ok" => /\ boot.added = M
                                  /\ boot.skipped = N - M
                                  /\ Len(store.roots) = M

\* C12 witness: watch() returned Ok for a bundle of two certificates of which
\* one was skipped.
C12_Witness ==
  /\ boot.outcome = "Ok"
  /\ Len(boot.args.roots_pem.certs) = 2
  /\ boot.added = 1
  /\ boot.skipped = 1

\* C13: when the bundle holds no certificate that can be added, watch() fails
\* with the error InvalidTrustRoots.
C13_NoRootsFailsWithInvalidTrustRoots ==
  (WatchReturned /\ CountAddable(boot.args.roots_pem.certs) = 0)
  => boot.outcome = "InvalidTrustRoots"

\* C14: watch() is all or nothing. With unusable roots or a key that is not
\* accepted it returns an error (InvalidKey for the key) and there is no Store,
\* no Receiver and no snapshot; Store, Receiver and snapshots exist exactly
\* when both were accepted.
C14_InitAllOrNothing ==
  WatchReturned
  => LET rootsOk == CountAddable(boot.args.roots_pem.certs) >= 1
         keyOk == boot.args.key_pkcs8 = "p256-pkcs8"
     IN /\ (rootsOk /\ keyOk) <=> boot.outcome = "Ok"
        /\ (rootsOk /\ ~keyOk) => boot.outcome = "InvalidKey"
        /\ boot.outcome = "Ok" => /\ store # NoStore
                                  /\ receivers = 1
                                  /\ clientCh # NoChannel
                                  /\ serverCh # NoChannel
        /\ boot.outcome # "Ok" => /\ store = NoStore
                                  /\ receivers = 0
                                  /\ clientCh = NoChannel
                                  /\ serverCh = NoChannel

\* C14 witness: good roots and a PKCS#8 key of another algorithm: InvalidKey, and
\* nothing was created.
C14_Witness ==
  /\ boot.outcome = "InvalidKey"
  /\ boot.args.key_pkcs8 = "rsa-pkcs8"
  /\ CountAddable(boot.args.roots_pem.certs) = 2
  /\ store = NoStore
  /\ receivers = 0

\* ---------------------------------------------------------------- C15 .. C17
\* C15 as claimed: whenever no call is running and some call has succeeded,
\* both channels hold the snapshots built by the most recent successful call,
\* over one and the same Certified Identity.
C15_LastSuccessfulCallIsPublished ==
  (pc = "idle" /\ nbuilt >= 1)
  => /\ Borrow(clientCh).ptr = nbuilt
     /\ Borrow(serverCh).ptr = nbuilt
     /\ Borrow(clientCh).val.client_auth_cert_resolver.kind = "CertResolver"
     /\ Borrow(serverCh).val.cert_resolver
          = Borrow(clientCh).val.client_auth_cert_resolver

\* C15, amended: whenever no call is running, some call has succeeded and a
\* Receiver is alive, both channels hold the snapshots built by the most recent
\* successful call, over one and the same Certified Identity; failed calls in
\* between change nothing.
C15_LastWriteWinsWhileObserved ==
  (pc = "idle" /\ nbuilt >= 1 /\ receivers > 0)
  => /\ Borrow(clientCh).ptr = nbuilt
     /\ Borrow(serverCh).ptr = nbuilt
     /\ Borrow(clientCh).val.client_auth_cert_resolver.kind = "CertResolver"
     /\ Borrow(serverCh).val.cert_resolver
          = Borrow(clientCh).val.client_auth_cert_resolver

\* C15 witness: two calls succeeded, a later one failed, and a live Receiver's
\* channels hold the second call's identity, a chain with an intermediate.
C15_Witness ==
  /\ pc = "idle"
  /\ ret = "Err"
  /\ nbuilt = 2
  /\ receivers > 0
  /\ clientCh.ptr = 2
  /\ serverCh.ptr = 2
  /\ Len(clientCh.val.client_auth_cert_resolver.ck.cert) = 2
  /\ serverCh.val.cert_resolver.ck = clientCh.val.client_auth_cert_resolver.ck

\* C16: a snapshot a reader holds is never changed. No step of set_certificate
\* touches it; a publication puts an object into the channel that is neither
\* the one it replaces nor the one the reader holds; and the reader's object,
\* when it is still the published one, has the content it was read with.
C16_CapturedSnapshotsNeverChange ==
  [][/\ (pc' # pc \/ ret' # ret) => obs' = obs
     /\ clientCh' # clientCh
         => /\ clientCh'.ptr > clientCh.ptr
            /\ obs.side = "client" => clientCh'.ptr > obs.snap.ptr
     /\ serverCh' # serverCh
         => /\ serverCh'.ptr > serverCh.ptr
            /\ obs.side = "server" => serverCh'.ptr > obs.snap.ptr
     /\ (obs'.side = "client" /\ obs'.snap.ptr = clientCh'.ptr) => obs'.snap = clientCh'
     /\ (obs'.side = "server" /\ obs'.snap.ptr = serverCh'.ptr) => obs'.snap = serverCh'
    ]_vars

\* C16 witness: a reader holds the client snapshot of the first rotation, with
\* its chain, while the channel holds the second rotation's, with another chain.
C16_Witness ==
  /\ obs.side = "client"
  /\ obs.snap.ptr = 1
  /\ clientCh.ptr = 2
  /\ obs.snap.val.client_auth_cert_resolver.ck.cert
       # clientCh.val.client_auth_cert_resolver.ck.cert

\* The key every resolver of a snapshot signs with
BoundToStoreKey(resolver) ==
  resolver.kind = "CertResolver" => resolver.ck.key = Key(store.key)

\* The Store's name, CSR, roots and key are the ones watch() was given, the
\* last CSR returned is the startup CSR, and every Certified Identity, published,
\* read or being published, is bound to the startup key.
StartupConfigKept ==
  /\ boot.outcome = "Ok"
  /\ store.name = boot.args.identity
  /\ store.csr = boot.args.csr
  /\ store.roots = SelectSeq(boot.args.roots_pem.certs, LAMBDA c : c.parsable)
  /\ store.server_cert_verifier.roots = store.roots
  /\ store.key.pkcs8 = boot.args.key_pkcs8
  /\ obs.side = "csr" => obs.der = boot.args.csr
  /\ BoundToStoreKey(Borrow(clientCh).val.client_auth_cert_resolver)
  /\ BoundToStoreKey(Borrow(serverCh).val.cert_resolver)
  /\ obs.side = "client" => BoundToStoreKey(obs.snap.val.client_auth_cert_resolver)
  /\ obs.side = "server" => BoundToStoreKey(obs.snap.val.cert_resolver)
  /\ pending.built => /\ BoundToStoreKey(pending.client.val.client_auth_cert_resolver)
                      /\ BoundToStoreKey(pending.server.val.cert_resolver)

\* C17: the startup configuration is constant over every step, and the CSR
\* request returns the startup CSR and changes neither the Store nor a channel.
C17_StartupConfigConstant ==
  [][/\ StartupConfigKept
     /\ StartupConfigKept'
     /\ boot' = boot
     /\ store' = store
     /\ GenCertificateSigningRequest
         => /\ obs'.der = boot.args.csr
            /\ clientCh' = clientCh
            /\ serverCh' = serverCh
            /\ pending' = pending
    ]_vars

\* C17 witness: after two rotations the CSR was asked for and is the startup
\* one, and the published identity is bound to the startup key.
C17_Witness ==
  /\ nbuilt = 2
  /\ pc = "idle"
  /\ obs.side = "csr"
  /\ obs.der = boot.args.csr
  /\ store.csr = boot.args.csr
  /\ clientCh.ptr = 2
  /\ clientCh.val.client_auth_cert_resolver.ck.key = Key(store.key)

\* ----------------------------------------------------------------------- C18
\* C18: a CertResolver answers a server hello with a certificate exactly when
\* the hello names a server, the leaf is valid for that name and the fixed
\* scheme is among the hello's schemes; the first of these checks that fails,
\* taken in this order, is the one that refuses; and the certificate returned
\* is the Certified Identity the resolver was built with.
C18_ServerResolveIffThreeChecks ==
  (hs.op = "server" /\ hs.resolver.kind = "CertResolver")
  => LET sni == hs.hello.server_name.some
         nameOk == sni /\ hs.hello.server_name.val \in hs.resolver.ck.cert[1].names
         schemeOk == FixedScheme \in Offered(hs.hello.signature_schemes)
     IN /\ hs.res.some <=> (sni /\ nameOk /\ schemeOk)
        /\ hs.res.some => hs.res.val = hs.resolver.ck
        /\ ~sni => hs.log = "no SNI -> no certificate"
        /\ (sni /\ ~nameOk) => hs.log = "Local certificate is not valid for SNI"
        /\ (sni /\ nameOk /\ ~schemeOk)
             => hs.log = "Signature scheme not supported -> no certificate"
        /\ (sni /\ nameOk /\ schemeOk) => hs.log = "none"

\* C18 witness: the identity is returned for its own name with the fixed scheme
\* offered second, by a resolver over a chain with an intermediate.
C18_Witness ==
  /\ hs.op = "server"
  /\ hs.resolver.kind = "CertResolver"
  /\ hs.hello.server_name.some
  /\ hs.hello.server_name.val \in hs.resolver.ck.cert[1].names
  /\ Len(hs.hello.signature_schemes) = 2
  /\ hs.hello.signature_schemes[2] = FixedScheme
  /\ hs.hello.signature_schemes[1] # FixedScheme
  /\ Len(hs.resolver.ck.cert) = 2
  /\ hs.res = Some(hs.resolver.ck)

\* ---------------------------------------------------------------- C19, C20
\* C19: the chain a call validates and binds is its leaf followed by its
\* intermediates in the order given. A call goes on to publish only if the
\* verifier accepts the leaf as end entity with the intermediates as the pool,
\* the resolver it builds for both configs holds exactly that chain, and so do
\* the client and the server snapshot once they are published.
C19_ChainIsLeafThenIntermediates ==
  [][/\ (pc = "idle" /\ pc' = "send_client")
         => LET given == <<pending'.leaf>> \o pending'.intermediates
            IN /\ \E now \in Times :
                    VerifyServerCert(store.server_cert_verifier, pending'.leaf,
                                     pending'.intermediates, store.name, now) = "Ok"
               /\ pending'.client.val.client_auth_cert_resolver.ck.cert = given
               /\ pending'.server.val.cert_resolver.ck.cert = given
     /\ (pc = "send_client" /\ pc' = "send_server" /\ receivers > 0)
         => clientCh'.val.client_auth_cert_resolver.ck.cert
              = <<pending.leaf>> \o pending.intermediates
     /\ (pc = "send_server" /\ pc' = "idle" /\ receivers > 0)
         => /\ serverCh'.val.cert_resolver.ck.cert
                = <<pending.leaf>> \o pending.intermediates
            /\ serverCh'.val.cert_resolver.ck.cert[1] = pending.leaf
    ]_vars

\* C19 witness: a call given the intermediates in the order root-side first has
\* returned, and both published snapshots hold the leaf and then the
\* intermediates in that order.
C19_Witness ==
  /\ pc = "idle"
  /\ ret = "Ok"
  /\ clientCh.val.client_auth_cert_resolver.ck.cert = <<LeafFooDeep, IntA, IntA2>>
  /\ serverCh.val.cert_resolver.ck.cert = <<LeafFooDeep, IntA, IntA2>>

\* C20: the expiry argument has no effect. Whatever step a call takes with one
\* expiry it takes with every other expiry, from the same state with the same
\* leaf, intermediates and clock reading; and the call is accepted exactly when
\* the chain verifies against the Store's roots for its name at that reading.
C20_ExpiryHasNoEffect ==
  [][\A leaf \in CallLeaves, intermediates \in CallInterSeqs, now \in Times,
        e1 \in Expiries, e2 \in Expiries :
       SetCertificate(leaf, intermediates, e1, now)
       => /\ SetCertificate(leaf, intermediates, e2, now)
          /\ (pc' = "send_client")
               <=> VerifyServerCert([kind |-> "WebPkiVerifier", roots |-> store.roots],
                                    leaf, intermediates, store.name, now) = "Ok"
          /\ (pc' = "idle" /\ ret' = "Err")
               <=> VerifyServerCert([kind |-> "WebPkiVerifier", roots |-> store.roots],
                                    leaf, intermediates, store.name, now) # "Ok"
    ]_vars

\* C20 witness: a call was accepted for the leaf that is valid at clock reading
\* 0 only, after an earlier call had been refused.
C20_Witness ==
  /\ pc = "send_client"
  /\ ret = "Err"
  /\ pending.leaf = LeafFooOld
  /\ Len(pending.intermediates) = 2
====
